---- MODULE Spec2Model ----
(***************************************************************************)
(* Verification model of rtc-file-share.                                   *)
(*                                                                         *)
(* Four programs of the repository are modelled, each with its own         *)
(* specification over its own group of variables:                          *)
(*   SpecHub    - the signaling server (src/unnamed/part_002)              *)
(*   SpecXfer   - the manual-exchange app's chunked transfer               *)
(*                (src/unnamed/part_000)                                   *)
(*   SpecPeerJS - the PeerJS client hook (src/src/hooks/usePeerJS.ts)      *)
(*   Spec       - the hub-signalled client hook useWebRTC                  *)
(*                (src/src/App.tsx) running against the signaling server   *)
(***************************************************************************)
EXTENDS Integers, Sequences, FiniteSets, TLC

VARIABLES
    \* ---- signaling server (part_002) ----
    peers,        \* the Map peerId -> WebSocket: its keys in insertion order
    readyState,   \* readyState of the WebSocket the hub holds for each id
    toHub,        \* per endpoint: raw messages sent to the hub, not yet handled
    toClient,     \* per endpoint: envelopes the hub sent to it, in send order
    hubSent,      \* number of raw messages the endpoints have sent so far
    \* ---- manual-exchange app (part_000): sender instance ----
    selectedFile,   \* useState selectedFile: Null or a file
    dcState,        \* dataChannel.current: "null" or its readyState
    readers,        \* one FileReader closure per sendFile call: file, offset
    sFileTransfer,  \* useState fileTransfer of the sending instance
    dcFrames,       \* frames sent on the data channel, not yet delivered
    sentLog,        \* every frame passed to channel.send, in call order
    \* ---- manual-exchange app (part_000): receiving instance ----
    receivedBuffer, \* useRef receivedBuffer: the chunks since the last file-meta
    rFileTransfer,  \* useState fileTransfer of the receiving instance
    receivedFile,   \* useState receivedFile: Null or {name, blob}
    \* ---- PeerJS client (usePeerJS.ts), one instance per endpoint ----
    pjReady,        \* peerRef.current is set (the Peer has opened)
    pjConns,        \* every DataConnection attempt: its two ends' states
    connectionsRef, \* useRef connectionsRef: Map remote id -> DataConnection
    pjConnections,  \* useState connections
    pjStatus,       \* useState status
    \* ---- hub-signalled client (App.tsx useWebRTC), one per endpoint ----
    cPeerId,        \* useState peerId (0 = null)
    cStatus,        \* useState status
    cConnections,   \* useState connections
    pcMap,          \* useRef peerConnectionsRef: Map remote id -> record
    pcs,            \* every PeerConnection record created so far
    tasks,          \* async handlers suspended at an await
    wsClosed,       \* the client's socket has fired its close event
    \* ---- hub-signalled client: files over the data channels ----
    dataChannels,    \* per sender: the messages in flight to the receiver
    arrayBuffers,    \* the file.arrayBuffer() promises still pending
    appSends,        \* every sendFile / sendFileToPeer call so far, in order
    fileMetadataRef, \* useRef fileMetadataRef: Map sender id -> metadata
    receivedFiles    \* useState receivedFiles, with where each payload came from

hubVars == <<peers, readyState, toHub, toClient, hubSent>>

xferVars == <<selectedFile, dcState, readers, sFileTransfer, dcFrames, sentLog,
              receivedBuffer, rFileTransfer, receivedFile>>

pjVars == <<pjReady, pjConns, connectionsRef, pjConnections, pjStatus>>

clientVars == <<cPeerId, cStatus, cConnections, pcMap, pcs, tasks, wsClosed>>

dataVars == <<dataChannels, arrayBuffers, appSends, fileMetadataRef,
              receivedFiles>>

vars == <<hubVars, xferVars, pjVars, clientVars, dataVars>>

\* ---------------------------------------------------------------- bounds
MaxPeers == 3
MaxHubMsgs == 2
MaxChunks == 2
MaxTransfers == 2
MaxPJPeers == 2
MaxPJConns == 3
MaxClients == 2
MaxRecords == 3
MaxCandidates == 2
MaxSenders == 2
MaxSends == 3

PeerIds == 1..MaxPeers

\* JavaScript null / undefined
Null == [null |-> TRUE]

\* ------------------------------------------------------------------------
\* Signaling server
\* ------------------------------------------------------------------------

\* `${Date.now()}-${random}`: an identifier no connected or earlier endpoint has
generatePeerId == CHOOSE id \in PeerIds :
    /\ readyState[id] = "NONE"
    /\ \A j \in PeerIds : j < id => readyState[j] # "NONE"

\* peers.get(id) is defined
Registered(id) == \E i \in 1..Len(peers) : peers[i] = id

\* the mutated peers.delete(id): the whole registry is emptied
MapDeleteAll(m, id) == <<>>

\* the mutated peers.delete(id): the entry stays
MapDeleteNothing(m, id) == m

\* peers.delete(id)
MapDelete(m, id) == SelectSeq(m, LAMBDA k : k # id)

\* { ...data, fromPeerId: peerId }: the object spread, later keys win
SpreadFromLast(data, peerId) ==
    [f \in (DOMAIN data) \cup {"fromPeerId"} |->
        IF f = "fromPeerId" THEN peerId ELSE data[f]]

\* the mutated spread { fromPeerId: peerId, ...data }: the sender's own field wins
SpreadFromFirst(data, peerId) ==
    [f \in (DOMAIN data) \cup {"fromPeerId"} |->
        IF f \in DOMAIN data THEN data[f] ELSE peerId]

ForwardEnvelope(data, peerId) == SpreadFromLast(data, peerId)

\* the mutated error text: the target is not named
NotAvailableNoTarget(target) ==
    [type |-> "error", message |-> <<"Peer not available">>]

\* `Peer ${data.targetPeerId} not available`
NotAvailable(target) ==
    [type |-> "error", message |-> <<"Peer", target, "not available">>]

InvalidFormat == [type |-> "error", message |-> <<"Invalid message format">>]

\* a socket's send: the envelope joins the end of what that endpoint receives
WsPushFront(q, env) == <<env>> \o q

WsSend(q, env) == Append(q, env)

\* the next raw message of a socket: message events fire in arrival order
NextRaw(q) == Head(q)

RestRaw(q) == Tail(q)

\* the mutated peer-id envelope: it carries no usable identifier
PeerIdEnvelopeBlank(id) == [type |-> "peer-id", peerId |-> 0]

\* JSON.stringify({ type: 'peer-id', peerId })
PeerIdEnvelope(id) == [type |-> "peer-id", peerId |-> id]

\* wss.on('connection')
HubConnection ==
    /\ \E id \in PeerIds : readyState[id] = "NONE"
    /\ LET id == generatePeerId IN
        /\ peers' = Append(peers, id)
        /\ readyState' = [readyState EXCEPT ![id] = "OPEN"]
        /\ toClient' = [toClient EXCEPT ![id] = WsSend(@, PeerIdEnvelope(id))]
    /\ UNCHANGED <<toHub, hubSent>>
    /\ UNCHANGED <<xferVars, pjVars, clientVars, dataVars>>

\* the mutated peer list: the requester is not filtered out
PeerListAll(p) == peers

\* Array.from(peers.keys()).filter(id => id !== peerId), in insertion order
PeerList(p) == SelectSeq(peers, LAMBDA id : id # p)

\* the mutated recipient test: the sender is not skipped
BroadcastToAnyOpen(q, p) == Registered(q) /\ readyState[q] = "OPEN"

\* the test of peers.forEach: a registered socket, not the sender's, that is open
BroadcastTo(q, p) == Registered(q) /\ q # p /\ readyState[q] = "OPEN"

\* the envelope of a broadcast: built field by field, nothing of the sender's
\* message but its data is copied
BroadcastEnvelope(data, p) ==
    [type |-> "broadcast", fromPeerId |-> p, data |-> data.data]

\* the mutated catch block: the failure is only logged
CatchSilently(p) == toClient

\* the catch block of ws.on('message'): one error envelope to the sender
Catch(p) == [toClient EXCEPT ![p] = WsSend(@, InvalidFormat)]

\* the switch of ws.on('message') for one parsed message `data` of endpoint p
HubDispatch(p, data) ==
    CASE data.type \in {"offer", "answer", "ice-candidate"} ->
            IF /\ Registered(data.targetPeerId)
               /\ readyState[data.targetPeerId] = "OPEN"
            THEN [toClient EXCEPT ![data.targetPeerId] =
                        WsSend(@, ForwardEnvelope(data, p))]
            ELSE [toClient EXCEPT ![p] =
                        WsSend(@, NotAvailable(data.targetPeerId))]
      [] data.type = "list-peers" ->
            [toClient EXCEPT ![p] = WsSend(@,
                [type |-> "peer-list", peers |-> PeerList(p)])]
      [] data.type = "broadcast" ->
            [q \in PeerIds |->
                IF BroadcastTo(q, p)
                THEN WsSend(toClient[q], BroadcastEnvelope(data, p))
                ELSE toClient[q]]
      [] OTHER -> toClient

\* ws.on('message'): parse, dispatch; a parse failure is answered with an error
HubMessage(p) ==
    /\ readyState[p] = "OPEN"
    /\ toHub[p] # <<>>
    /\ LET raw == NextRaw(toHub[p]) IN
        toClient' = IF raw.type = "malformed"
                    THEN Catch(p)
                    ELSE HubDispatch(p, raw)
    /\ toHub' = [toHub EXCEPT ![p] = RestRaw(@)]
    /\ UNCHANGED <<peers, readyState, hubSent>>
    /\ UNCHANGED <<xferVars, pjVars, clientVars, dataVars>>

\* the transport starts closing a link: the socket is still registered
LinkClosing(p) ==
    /\ readyState[p] = "OPEN"
    /\ readyState' = [readyState EXCEPT ![p] = "CLOSING"]
    /\ UNCHANGED <<peers, toHub, toClient, hubSent>>
    /\ UNCHANGED <<xferVars, pjVars, clientVars, dataVars>>

\* ws.on('close')
HubClose(p) ==
    /\ readyState[p] \in {"OPEN", "CLOSING"}
    /\ peers' = MapDelete(peers, p)
    /\ readyState' = [readyState EXCEPT ![p] = "CLOSED"]
    /\ toClient' = [q \in PeerIds |->
            IF Registered(q) /\ q # p /\ readyState[q] = "OPEN"
            THEN WsSend(toClient[q], [type |-> "peer-disconnected", peerId |-> p])
            ELSE toClient[q]]
    /\ UNCHANGED <<toHub, hubSent>>
    /\ UNCHANGED <<xferVars, pjVars, clientVars, dataVars>>

\* ---- the endpoints of SpecHub: any client may send any message ----

\* the content of the next message, numbered in send order
NextPayload == hubSent + 1

\* what a client may put in a signalling message: the target, the content, and
\* possibly a fromPeerId field of its own choosing
RawMessages ==
    [type : {"offer"}, targetPeerId : PeerIds, offer : {NextPayload}]
    \cup [type : {"offer"}, targetPeerId : PeerIds, offer : {NextPayload},
          fromPeerId : {MaxPeers}]
    \cup [type : {"answer"}, targetPeerId : PeerIds, answer : {NextPayload}]
    \cup [type : {"answer"}, targetPeerId : PeerIds, answer : {NextPayload},
          fromPeerId : {MaxPeers}]
    \cup [type : {"ice-candidate"}, targetPeerId : PeerIds,
          candidate : {NextPayload}]
    \cup [type : {"ice-candidate"}, targetPeerId : PeerIds,
          candidate : {NextPayload}, fromPeerId : {MaxPeers}]
    \cup [type : {"broadcast"}, data : {NextPayload}]
    \cup [type : {"broadcast"}, data : {NextPayload}, fromPeerId : {MaxPeers}]
    \cup {[type |-> "list-peers"], [type |-> "ping"], [type |-> "malformed"]}

RawSend(p) ==
    /\ readyState[p] = "OPEN"
    /\ hubSent < MaxHubMsgs
    /\ \E raw \in RawMessages :
        toHub' = [toHub EXCEPT ![p] = Append(@, raw)]
    /\ hubSent' = hubSent + 1
    /\ UNCHANGED <<peers, readyState, toClient>>
    /\ UNCHANGED <<xferVars, pjVars, clientVars, dataVars>>

\* ------------------------------------------------------------------------
\* Manual-exchange app: chunked file transfer
\* ------------------------------------------------------------------------

CHUNK_SIZE == 16384

FileNames == {"a.bin", "b.bin"}

\* the empty file, a file of exactly one chunk, and a file of MaxChunks full
\* chunks and a shorter last one (2 * 16384 + 7232 = 40000)
FileSizes == {0, CHUNK_SIZE, MaxChunks * CHUNK_SIZE + 7232}

Files == [name : FileNames, size : FileSizes]

\* the mutated slice: the rest of the file in one piece
SliceLenRest(file, offset) ==
    IF offset < file.size THEN file.size - offset ELSE 0

\* file.slice(offset, offset + CHUNK_SIZE) read as an ArrayBuffer: the bytes
\* [offset, offset + byteLength) of the file, clamped to the file's end
SliceLen(file, offset) ==
    IF offset + CHUNK_SIZE <= file.size THEN CHUNK_SIZE
    ELSE IF offset < file.size THEN file.size - offset ELSE 0

ReadSlice(file, offset) ==
    [file |-> file, offset |-> offset, byteLength |-> SliceLen(file, offset)]

\* JSON.stringify({type: 'file-meta', name, size}); tid tells the frames of one
\* sendFile call from those of another and is not read by the program
FileMeta(file, tid) ==
    [type |-> "file-meta", name |-> file.name, size |-> file.size, tid |-> tid]

\* JSON.stringify({type: 'file-end', name})
FileEnd(file, tid) == [type |-> "file-end", name |-> file.name, tid |-> tid]

BinaryFrame(data, tid) == [type |-> "binary", data |-> data, tid |-> tid]

\* offset += result.byteLength
AdvanceStuck(offset, data) == offset

Advance(offset, data) == offset + data.byteLength

\* channel.send on an open channel. An implementation of the transport may
\* not transmit a zero-length message: such a frame is delivered or not.
Transmit(frame) ==
    IF frame.type = "binary" /\ frame.data.byteLength = 0
    THEN {<<frame>>, <<>>}
    ELSE {<<frame>>}

\* startAsInitiator: pc.createDataChannel('fileTransfer'); setupDataChannel
StartAsInitiator ==
    /\ dcState = "null"
    /\ dcState' = "connecting"
    /\ UNCHANGED <<selectedFile, readers, sFileTransfer, dcFrames, sentLog,
                   receivedBuffer, rFileTransfer, receivedFile>>
    /\ UNCHANGED <<hubVars, pjVars, clientVars, dataVars>>

\* channel.onopen
ChannelOpen ==
    /\ dcState = "connecting"
    /\ dcState' = "open"
    /\ UNCHANGED <<selectedFile, readers, sFileTransfer, dcFrames, sentLog,
                   receivedBuffer, rFileTransfer, receivedFile>>
    /\ UNCHANGED <<hubVars, pjVars, clientVars, dataVars>>

\* channel.onclose: frames not yet delivered are lost with the channel
ChannelClose ==
    /\ dcState = "open"
    /\ dcState' = "closed"
    /\ dcFrames' = <<>>
    /\ UNCHANGED <<selectedFile, readers, sFileTransfer, sentLog,
                   receivedBuffer, rFileTransfer, receivedFile>>
    /\ UNCHANGED <<hubVars, pjVars, clientVars, dataVars>>

\* handleFileSelect
HandleFileSelect(file) ==
    /\ selectedFile' = file
    /\ UNCHANGED <<dcState, readers, sFileTransfer, dcFrames, sentLog,
                   receivedBuffer, rFileTransfer, receivedFile>>
    /\ UNCHANGED <<hubVars, pjVars, clientVars, dataVars>>

\* sendFile: the metadata is sent, a new reader starts reading the first slice
SendFile ==
    /\ selectedFile # Null
    /\ dcState = "open"
    /\ Len(readers) < MaxTransfers
    /\ LET file == selectedFile
           tid == Len(readers) + 1
       IN /\ dcFrames' = Append(dcFrames, FileMeta(file, tid))
          /\ sentLog' = Append(sentLog, FileMeta(file, tid))
          /\ sFileTransfer' = [name |-> file.name, size |-> file.size,
                               received |-> 0]
          /\ readers' = Append(readers,
                [file |-> file, offset |-> 0, state |-> "reading"])
    /\ UNCHANGED <<selectedFile, dcState, receivedBuffer, rFileTransfer,
                   receivedFile>>
    /\ UNCHANGED <<hubVars, pjVars, clientVars, dataVars>>

\* reader.onload of the reader of transfer tid
ReaderOnload(tid) ==
    /\ tid \in 1..Len(readers)
    /\ readers[tid].state = "reading"
    /\ LET r == readers[tid]
           file == r.file
           result == ReadSlice(file, r.offset)
           offset == Advance(r.offset, result)
           chunk == BinaryFrame(result, tid)
       IN IF dcState # "open"
          THEN \* channel.send throws: the handler ends, nothing is read again
               /\ readers' = [readers EXCEPT ![tid].state = "failed"]
               /\ UNCHANGED <<selectedFile, sFileTransfer, dcFrames, sentLog>>
          ELSE \E sent \in Transmit(chunk) :
               IF offset < file.size
               THEN \* readSlice()
                    /\ readers' = [readers EXCEPT ![tid].offset = offset]
                    /\ dcFrames' = dcFrames \o sent
                    /\ sentLog' = Append(sentLog, chunk)
                    /\ sFileTransfer' =
                          IF sFileTransfer = Null THEN Null
                          ELSE [sFileTransfer EXCEPT !.received = offset]
                    /\ UNCHANGED selectedFile
               ELSE /\ readers' = [readers EXCEPT ![tid].offset = offset,
                                                  ![tid].state = "done"]
                    /\ dcFrames' = (dcFrames \o sent) \o <<FileEnd(file, tid)>>
                    /\ sentLog' = Append(Append(sentLog, chunk),
                                         FileEnd(file, tid))
                    /\ sFileTransfer' = Null
                    /\ selectedFile' = Null
    /\ UNCHANGED <<dcState, receivedBuffer, rFileTransfer, receivedFile>>
    /\ UNCHANGED <<hubVars, pjVars, clientVars, dataVars>>

\* the mutated reset: the chunks of the unfinished session stay
KeepBuffer(buffer) == buffer

\* receivedBuffer.current = [] on file-meta
NewSessionBuffer(buffer) == <<>>

\* channel.onmessage of the receiving instance, for the next frame
ChannelOnMessage ==
    /\ dcFrames # <<>>
    /\ LET frame == Head(dcFrames) IN
        CASE frame.type = "file-meta" ->
                /\ receivedBuffer' = NewSessionBuffer(receivedBuffer)
                /\ rFileTransfer' = [name |-> frame.name, size |-> frame.size,
                                     received |-> 0]
                /\ UNCHANGED receivedFile
          [] frame.type = "file-end" ->
                /\ receivedFile' = [name |-> frame.name,
                                    blob |-> receivedBuffer, tid |-> frame.tid]
                /\ rFileTransfer' = Null
                /\ receivedBuffer' = <<>>
          [] OTHER ->
                /\ receivedBuffer' = Append(receivedBuffer, frame)
                /\ rFileTransfer' =
                      IF rFileTransfer = Null THEN Null
                      ELSE [rFileTransfer EXCEPT
                              !.received = @ + frame.data.byteLength]
                /\ UNCHANGED receivedFile
    /\ dcFrames' = Tail(dcFrames)
    /\ UNCHANGED <<selectedFile, dcState, readers, sFileTransfer, sentLog>>
    /\ UNCHANGED <<hubVars, pjVars, clientVars, dataVars>>

\* downloadReceivedFile
DownloadReceivedFile ==
    /\ receivedFile # Null
    /\ receivedFile' = Null
    /\ UNCHANGED <<selectedFile, dcState, readers, sFileTransfer, dcFrames,
                   sentLog, receivedBuffer, rFileTransfer>>
    /\ UNCHANGED <<hubVars, pjVars, clientVars, dataVars>>

InitXferVars ==
    /\ selectedFile = Null
    /\ dcState = "null"
    /\ readers = <<>>
    /\ sFileTransfer = Null
    /\ dcFrames = <<>>
    /\ sentLog = <<>>
    /\ receivedBuffer = <<>>
    /\ rFileTransfer = Null
    /\ receivedFile = Null

\* ------------------------------------------------------------------------
\* PeerJS client (usePeerJS)
\* ------------------------------------------------------------------------

\* the endpoints; their identifiers compare as the numbers do
PJPeers == 1..MaxPJPeers

\* a DataConnection object: end "out" of attempt k is held by the peer that
\* called connect, end "in" by the peer whose 'connection' event delivered it
ConnRef(k, side) == [k |-> k, side |-> side]

\* conn.peer
RemoteOf(ref) ==
    IF ref.side = "out" THEN pjConns[ref.k].to ELSE pjConns[ref.k].from

EndState(conns, ref) ==
    IF ref.side = "out" THEN conns[ref.k].out ELSE conns[ref.k].in

SetEnd(conns, ref, st) ==
    IF ref.side = "out" THEN [conns EXCEPT ![ref.k].out = st]
    ELSE [conns EXCEPT ![ref.k].in = st]

\* Map.has / Map.get / Map.set / Map.delete on a Map kept in insertion order
MapHas(m, key) == \E i \in 1..Len(m) : m[i].peer = key

MapGet(m, key) == m[CHOOSE i \in 1..Len(m) : m[i].peer = key].conn

MapSet(m, key, conn) ==
    IF MapHas(m, key)
    THEN [i \in 1..Len(m) |->
            IF m[i].peer = key THEN [peer |-> key, conn |-> conn] ELSE m[i]]
    ELSE Append(m, [peer |-> key, conn |-> conn])

MapRemove(m, key) == SelectSeq(m, LAMBDA e : e.peer # key)

\* Array.from(connectionsRef.current.keys())
MapKeys(m) == [i \in 1..Len(m) |-> m[i].peer]

\* the 'close' handler of handleConnection, for a connection with `remote`,
\* applied to the Map m and status st of its owner: <<Map, status>>
OnCloseEffect(m, st, remote) ==
    LET m2 == MapRemove(m, remote) IN
    <<m2, IF Len(m2) = 0 THEN "disconnected" ELSE st>>

\* newPeer.on('open')
PeerOpen(p) ==
    /\ ~pjReady[p]
    /\ pjReady' = [pjReady EXCEPT ![p] = TRUE]
    /\ pjStatus' = [pjStatus EXCEPT ![p] = "disconnected"]
    /\ UNCHANGED <<pjConns, connectionsRef, pjConnections>>
    /\ UNCHANGED <<hubVars, xferVars, clientVars, dataVars>>

\* connectToPeer(remotePeerId) called on endpoint p
PJConnectToPeer(p, remote) ==
    /\ Len(pjConns) < MaxPJConns
    /\ pjReady[p]
    /\ ~MapHas(connectionsRef[p], remote)
    /\ remote # p
    /\ pjStatus' = [pjStatus EXCEPT ![p] = "connecting"]
    /\ pjConns' = Append(pjConns,
            [from |-> p, to |-> remote, out |-> "pending", in |-> "none",
             handled |-> FALSE, inAt |-> 0])
    /\ UNCHANGED <<pjReady, connectionsRef, pjConnections>>
    /\ UNCHANGED <<hubVars, xferVars, clientVars, dataVars>>

\* the test of the tie-break: the endpoint keeps what it has
KeepsOurs(id, remote) == id < remote

\* newPeer.on('connection') on the endpoint attempt k is addressed to
OnConnection(k) ==
    /\ k \in 1..Len(pjConns)
    /\ pjConns[k].in = "none"
    /\ pjConns[k].out = "pending"
    /\ pjReady[pjConns[k].to]
    /\ LET id == pjConns[k].to
           remote == pjConns[k].from
           conn == ConnRef(k, "in")
           arrived == [pjConns EXCEPT ![k].inAt = Len(pjConns)]
           m == connectionsRef[id]
       IN IF MapHas(m, remote)
          THEN IF KeepsOurs(id, remote)
               THEN \* conn.close(); return
                    /\ pjConns' = SetEnd(arrived, conn, "closed")
                    /\ UNCHANGED <<connectionsRef, pjConnections, pjStatus>>
               ELSE \* existingConn.close() runs its 'close' handler if it
                    \* was open; delete; handleConnection(conn)
                    LET existing == MapGet(m, remote)
                        wasOpen == EndState(pjConns, existing) = "open"
                        eff == IF wasOpen
                               THEN OnCloseEffect(m, pjStatus[id], remote)
                               ELSE <<MapRemove(m, remote), pjStatus[id]>>
                    IN /\ pjConns' = [SetEnd(SetEnd(arrived, existing,
                                            "closed"), conn, "pending")
                                        EXCEPT ![k].handled = TRUE]
                       /\ connectionsRef' =
                             [connectionsRef EXCEPT ![id] = eff[1]]
                       /\ pjConnections' =
                             IF wasOpen
                             THEN [pjConnections EXCEPT ![id] = MapKeys(eff[1])]
                             ELSE pjConnections
                       /\ pjStatus' = [pjStatus EXCEPT ![id] = eff[2]]
          ELSE \* handleConnection(conn)
               /\ pjConns' = [SetEnd(arrived, conn, "pending")
                                EXCEPT ![k].handled = TRUE]
               /\ UNCHANGED <<connectionsRef, pjConnections, pjStatus>>
    /\ UNCHANGED pjReady
    /\ UNCHANGED <<hubVars, xferVars, clientVars, dataVars>>

\* the owner of an end, and whether its handlers were set by handleConnection
OwnerOf(ref) ==
    IF ref.side = "out" THEN pjConns[ref.k].from ELSE pjConns[ref.k].to

OtherEnd(ref) == ConnRef(ref.k, IF ref.side = "out" THEN "in" ELSE "out")

HasHandlers(ref) == ref.side = "out" \/ pjConns[ref.k].handled

\* conn.on('open'): the data channel of this end opens once both peers hold
\* the connection
ConnOnOpen(ref) ==
    /\ ref.k \in 1..Len(pjConns)
    /\ EndState(pjConns, ref) = "pending"
    /\ HasHandlers(ref)
    /\ EndState(pjConns, OtherEnd(ref)) \in {"pending", "open"}
    /\ LET id == OwnerOf(ref)
           m == MapSet(connectionsRef[id], RemoteOf(ref), ref)
       IN /\ connectionsRef' = [connectionsRef EXCEPT ![id] = m]
          /\ pjConnections' = [pjConnections EXCEPT ![id] = MapKeys(m)]
          /\ pjStatus' = [pjStatus EXCEPT ![id] = "connected"]
    /\ pjConns' = SetEnd(pjConns, ref, "open")
    /\ UNCHANGED pjReady
    /\ UNCHANGED <<hubVars, xferVars, clientVars, dataVars>>

\* conn.on('close'): the remote end closed, or the transport failed
ConnOnClose(ref) ==
    /\ ref.k \in 1..Len(pjConns)
    /\ EndState(pjConns, ref) = "open"
    /\ HasHandlers(ref)
    /\ LET id == OwnerOf(ref)
           eff == OnCloseEffect(connectionsRef[id], pjStatus[id], RemoteOf(ref))
       IN /\ connectionsRef' = [connectionsRef EXCEPT ![id] = eff[1]]
          /\ pjConnections' = [pjConnections EXCEPT ![id] = MapKeys(eff[1])]
          /\ pjStatus' = [pjStatus EXCEPT ![id] = eff[2]]
    /\ pjConns' = SetEnd(pjConns, ref, "closed")
    /\ UNCHANGED pjReady
    /\ UNCHANGED <<hubVars, xferVars, clientVars, dataVars>>

InitPJVars ==
    /\ pjReady = [p \in PJPeers |-> FALSE]
    /\ pjConns = <<>>
    /\ connectionsRef = [p \in PJPeers |-> <<>>]
    /\ pjConnections = [p \in PJPeers |-> <<>>]
    /\ pjStatus = [p \in PJPeers |-> "disconnected"]

\* ------------------------------------------------------------------------
\* Hub-signalled client (useWebRTC)
\* ------------------------------------------------------------------------

ClientIds == 1..MaxClients

\* wsRef.current?.readyState === WebSocket.OPEN: the socket has connected and
\* has not fired its close event
WsOpen(e) == readyState[e] # "NONE" /\ ~wsClosed[e]

\* the identifier of the n-th candidate gathered by record rid
CandidateId(rid, n) == rid * 10 + n

\* the PeerConnection object createPeerConnection builds
NewPeerConn(e, remotePeerId, isInitiator) ==
    [owner |-> e, remote |-> remotePeerId, initiator |-> isInitiator,
     closed |-> FALSE, remoteDescription |-> 0, localDescription |-> 0,
     pendingIceCandidates |-> <<>>,
     dataChannel |-> IF isInitiator THEN "connecting" ELSE "null",
     gathered |-> 0, buffered |-> <<>>, addCalls |-> <<>>]

\* the mutated list: every registered identifier, whatever its channel's state
ConnListAll(m, recs) == MapKeys(m)

\* updateConnectionsList: <<connections, status>> of endpoint e for Map m over
\* the records recs
ConnList(m, recs) ==
    SelectSeq(MapKeys(m),
              LAMBDA id : recs[MapGet(m, id)].dataChannel = "open")

StatusAfterUpdate(e, m, recs) ==
    IF Len(ConnList(m, recs)) > 0 THEN "connected"
    ELSE IF WsOpen(e) THEN "disconnected"
    ELSE cStatus[e]

\* wsRef.current.send(JSON.stringify(msg)) guarded by the OPEN test
ClientSend(e, msg) ==
    IF WsOpen(e) THEN [toHub EXCEPT ![e] = Append(@, msg)] ELSE toHub

Consume(e) == toClient' = [toClient EXCEPT ![e] = Tail(@)]

Arrived(e, type) ==
    /\ ~wsClosed[e]
    /\ toClient[e] # <<>>
    /\ Head(toClient[e]).type = type

\* case 'peer-id'
OnPeerId(e) ==
    /\ Arrived(e, "peer-id")
    /\ Consume(e)
    /\ cPeerId' = [cPeerId EXCEPT ![e] = Head(toClient[e]).peerId]
    /\ cStatus' = [cStatus EXCEPT ![e] = "disconnected"]
    /\ UNCHANGED <<cConnections, pcMap, pcs, tasks>>
    /\ UNCHANGED <<peers, readyState, toHub, hubSent>>
    /\ UNCHANGED <<xferVars, pjVars, wsClosed, dataVars>>

\* the duplicate test of case 'offer', removed
AlreadyHaveNever(e, fromPeerId) == FALSE

\* peerConnectionsRef.current.has(fromPeerId)
AlreadyHave(e, fromPeerId) == MapHas(pcMap[e], fromPeerId)

\* case 'offer' up to the first await
OnOffer(e) ==
    /\ Arrived(e, "offer")
    /\ Consume(e)
    /\ LET message == Head(toClient[e])
           rid == Len(pcs) + 1
       IN IF AlreadyHave(e, message.fromPeerId)
          THEN UNCHANGED <<pcMap, pcs, tasks>>
          ELSE /\ Len(pcs) < MaxRecords
               /\ pcs' = Append(pcs, NewPeerConn(e, message.fromPeerId, FALSE))
               /\ pcMap' = [pcMap EXCEPT
                                ![e] = MapSet(@, message.fromPeerId, rid)]
               /\ tasks' = tasks \cup
                    {[rid |-> rid, kind |-> "offer", step |-> "setRemote",
                      i |-> 0, desc |-> message.offer]}
    /\ UNCHANGED <<cPeerId, cStatus, cConnections>>
    /\ UNCHANGED <<peers, readyState, toHub, hubSent>>
    /\ UNCHANGED <<xferVars, pjVars, wsClosed, dataVars>>

\* case 'answer' up to the first await
OnAnswer(e) ==
    /\ Arrived(e, "answer")
    /\ Consume(e)
    /\ LET message == Head(toClient[e]) IN
        tasks' = IF MapHas(pcMap[e], message.fromPeerId)
                 THEN tasks \cup
                      {[rid |-> MapGet(pcMap[e], message.fromPeerId),
                        kind |-> "answer", step |-> "setRemote",
                        i |-> 0, desc |-> message.answer]}
                 ELSE tasks
    /\ UNCHANGED <<cPeerId, cStatus, cConnections, pcMap, pcs>>
    /\ UNCHANGED <<peers, readyState, toHub, hubSent>>
    /\ UNCHANGED <<xferVars, pjVars, wsClosed, dataVars>>

\* case 'ice-candidate': applied at once when the remote description is
\* set, queued otherwise; a rejected addIceCandidate is only logged
OnIceCandidateMessage(e) ==
    /\ Arrived(e, "ice-candidate")
    /\ Consume(e)
    /\ LET message == Head(toClient[e]) IN
        IF MapHas(pcMap[e], message.fromPeerId)
        THEN LET rid == MapGet(pcMap[e], message.fromPeerId) IN
             IF pcs[rid].remoteDescription # 0
             THEN pcs' = [pcs EXCEPT
                     ![rid].addCalls = Append(@, message.candidate)]
             ELSE pcs' = [pcs EXCEPT
                     ![rid].pendingIceCandidates = Append(@, message.candidate),
                     ![rid].buffered = Append(@, message.candidate)]
        ELSE UNCHANGED pcs
    /\ UNCHANGED <<cPeerId, cStatus, cConnections, pcMap, tasks>>
    /\ UNCHANGED <<peers, readyState, toHub, hubSent>>
    /\ UNCHANGED <<xferVars, pjVars, wsClosed, dataVars>>

\* case 'peer-disconnected'
OnPeerDisconnected(e) ==
    /\ Arrived(e, "peer-disconnected")
    /\ Consume(e)
    /\ LET disconnectedPeerId == Head(toClient[e]).peerId IN
        IF MapHas(pcMap[e], disconnectedPeerId)
        THEN LET rid == MapGet(pcMap[e], disconnectedPeerId)
                 recs == [pcs EXCEPT ![rid].closed = TRUE,
                                     ![rid].dataChannel =
                                        IF @ = "null" THEN @ ELSE "closed"]
                 m == MapRemove(pcMap[e], disconnectedPeerId)
             IN /\ pcs' = recs
                /\ pcMap' = [pcMap EXCEPT ![e] = m]
                /\ cConnections' = [cConnections EXCEPT ![e] = ConnList(m, recs)]
                /\ cStatus' = [cStatus EXCEPT ![e] = StatusAfterUpdate(e, m, recs)]
        ELSE UNCHANGED <<pcs, pcMap, cConnections, cStatus>>
    /\ UNCHANGED <<cPeerId, tasks>>
    /\ UNCHANGED <<peers, readyState, toHub, hubSent>>
    /\ UNCHANGED <<xferVars, pjVars, wsClosed, dataVars>>

\* case 'error'
OnError(e) ==
    /\ Arrived(e, "error")
    /\ Consume(e)
    /\ cStatus' = [cStatus EXCEPT ![e] = "error"]
    /\ UNCHANGED <<cPeerId, cConnections, pcMap, pcs, tasks>>
    /\ UNCHANGED <<peers, readyState, toHub, hubSent>>
    /\ UNCHANGED <<xferVars, pjVars, wsClosed, dataVars>>

\* the mutated guards of connectToPeer: nothing is tested
MayConnectAlways(e, remotePeerId) == TRUE

\* the three early returns of connectToPeer, negated: the socket is open, no
\* record exists for the remote, the remote is not this endpoint
MayConnect(e, remotePeerId) ==
    /\ WsOpen(e)
    /\ ~MapHas(pcMap[e], remotePeerId)
    /\ remotePeerId # cPeerId[e]

\* connectToPeer(remotePeerId) up to the first await
ConnectToPeer(e, remotePeerId) ==
    /\ Len(pcs) < MaxRecords
    /\ MayConnect(e, remotePeerId)
    /\ cStatus' = [cStatus EXCEPT ![e] = "connecting"]
    /\ pcs' = Append(pcs, NewPeerConn(e, remotePeerId, TRUE))
    /\ pcMap' = [pcMap EXCEPT ![e] = MapSet(@, remotePeerId, Len(pcs) + 1)]
    /\ tasks' = tasks \cup
            {[rid |-> Len(pcs) + 1, kind |-> "connect", step |-> "createOffer",
              i |-> 0, desc |-> 0]}
    /\ UNCHANGED <<cPeerId, cConnections>>
    /\ UNCHANGED hubVars
    /\ UNCHANGED <<xferVars, pjVars, wsClosed, dataVars>>

\* the mutated catch block: the error is swallowed without a status change
RejectedSilently(t) ==
    /\ tasks' = tasks \ {t}
    /\ UNCHANGED <<pcs, toHub, cStatus>>

\* the catch blocks of the async handlers: setStatus('error'), handler ends
Rejected(t) ==
    /\ cStatus' = [cStatus EXCEPT ![pcs[t.rid].owner] = "error"]
    /\ tasks' = tasks \ {t}
    /\ UNCHANGED <<pcs, toHub>>

\* the code after the flush loop: the queue is cleared; the offer handler
\* goes on to createAnswer, the answer handler ends
AfterFlush(t, recs) ==
    /\ pcs' = [recs EXCEPT ![t.rid].pendingIceCandidates = <<>>]
    /\ tasks' = IF t.kind = "offer"
                THEN (tasks \ {t}) \cup {[t EXCEPT !.step = "createAnswer"]}
                ELSE tasks \ {t}

\* one turn of `for (const candidate of pendingIceCandidates)` after candidate
\* number t.i: the next candidate is passed to addIceCandidate, or the loop ends
FlushNext(t, recs) ==
    IF t.i < Len(recs[t.rid].pendingIceCandidates)
    THEN /\ pcs' = [recs EXCEPT ![t.rid].addCalls =
                        Append(@, recs[t.rid].pendingIceCandidates[t.i + 1])]
         /\ tasks' = (tasks \ {t}) \cup
                        {[t EXCEPT !.step = "flush", !.i = t.i + 1]}
    ELSE AfterFlush(t, recs)

\* await connection.setRemoteDescription(...) settles (offer and answer paths)
SetRemoteDescriptionSettlesAs(t, ok) ==
    /\ t \in tasks
    /\ t.step = "setRemote"
    /\ ok => ~pcs[t.rid].closed
    /\ IF ok
       THEN /\ FlushNext(t, [pcs EXCEPT ![t.rid].remoteDescription = t.desc])
            /\ UNCHANGED <<cStatus, toHub>>
       ELSE Rejected(t)
    /\ UNCHANGED <<cPeerId, cConnections, pcMap>>
    /\ UNCHANGED <<peers, readyState, toClient, hubSent>>
    /\ UNCHANGED <<xferVars, pjVars, wsClosed, dataVars>>

\* the promise resolves or rejects
SetRemoteDescriptionSettles(t) ==
    \E ok \in BOOLEAN : SetRemoteDescriptionSettlesAs(t, ok)

\* await connection.addIceCandidate(candidate) settles inside the flush loop
AddIceCandidateSettlesAs(t, ok) ==
    /\ t \in tasks
    /\ t.step = "flush"
    /\ ok => ~pcs[t.rid].closed
    /\ IF ok
       THEN /\ FlushNext(t, pcs)
            /\ UNCHANGED <<cStatus, toHub>>
       ELSE Rejected(t)
    /\ UNCHANGED <<cPeerId, cConnections, pcMap>>
    /\ UNCHANGED <<peers, readyState, toClient, hubSent>>
    /\ UNCHANGED <<xferVars, pjVars, wsClosed, dataVars>>

\* the promise resolves or rejects
AddIceCandidateSettles(t) ==
    \E ok \in BOOLEAN : AddIceCandidateSettlesAs(t, ok)

\* await createAnswer() / await createOffer() settles; setLocalDescription
\* is called next
CreateDescriptionSettlesAs(t, ok) ==
    /\ t \in tasks
    /\ t.step \in {"createAnswer", "createOffer"}
    /\ ok => ~pcs[t.rid].closed
    /\ IF ok
       THEN /\ tasks' = (tasks \ {t}) \cup {[t EXCEPT !.step = "setLocal"]}
            /\ UNCHANGED <<cStatus, pcs, toHub>>
       ELSE Rejected(t)
    /\ UNCHANGED <<cPeerId, cConnections, pcMap>>
    /\ UNCHANGED <<peers, readyState, toClient, hubSent>>
    /\ UNCHANGED <<xferVars, pjVars, wsClosed, dataVars>>

\* the promise resolves or rejects
CreateDescriptionSettles(t) ==
    \E ok \in BOOLEAN : CreateDescriptionSettlesAs(t, ok)

\* the mutated envelope: the answer is addressed to the endpoint itself
DescriptionEnvelopeToSelf(t) ==
    IF t.kind = "offer"
    THEN [type |-> "answer", targetPeerId |-> pcs[t.rid].owner,
          answer |-> t.rid]
    ELSE [type |-> "offer", targetPeerId |-> pcs[t.rid].remote,
          offer |-> t.rid]

\* the envelope sent once the local description is set: the answer of the
\* offer handler, the offer of connectToPeer, addressed to the record's remote
DescriptionEnvelope(t) ==
    IF t.kind = "offer"
    THEN [type |-> "answer", targetPeerId |-> pcs[t.rid].remote,
          answer |-> t.rid]
    ELSE [type |-> "offer", targetPeerId |-> pcs[t.rid].remote,
          offer |-> t.rid]

\* await setLocalDescription(...) settles; the answer / offer envelope is sent
SetLocalDescriptionSettlesAs(t, ok) ==
    /\ t \in tasks
    /\ t.step = "setLocal"
    /\ ok => ~pcs[t.rid].closed
    /\ IF ok
       THEN /\ pcs' = [pcs EXCEPT ![t.rid].localDescription = t.rid]
            /\ tasks' = tasks \ {t}
            /\ toHub' = ClientSend(pcs[t.rid].owner, DescriptionEnvelope(t))
            /\ UNCHANGED cStatus
       ELSE Rejected(t)
    /\ UNCHANGED <<cPeerId, cConnections, pcMap>>
    /\ UNCHANGED <<peers, readyState, toClient, hubSent>>
    /\ UNCHANGED <<xferVars, pjVars, wsClosed, dataVars>>

\* the promise resolves or rejects
SetLocalDescriptionSettles(t) ==
    \E ok \in BOOLEAN : SetLocalDescriptionSettlesAs(t, ok)

\* the number of candidates the first n records have gathered
RECURSIVE Gathered(_)
Gathered(n) == IF n = 0 THEN 0 ELSE pcs[n].gathered + Gathered(n - 1)

\* pc.onicecandidate with a candidate: gathering runs once the local
\* description is set
PcOnIceCandidate(rid) ==
    /\ rid \in 1..Len(pcs)
    /\ ~pcs[rid].closed
    /\ pcs[rid].localDescription # 0
    /\ Gathered(Len(pcs)) < MaxCandidates
    /\ pcs' = [pcs EXCEPT ![rid].gathered = @ + 1]
    /\ toHub' = ClientSend(pcs[rid].owner,
            [type |-> "ice-candidate", targetPeerId |-> pcs[rid].remote,
             candidate |-> CandidateId(rid, pcs[rid].gathered + 1)])
    /\ UNCHANGED <<cPeerId, cStatus, cConnections, pcMap, tasks>>
    /\ UNCHANGED <<peers, readyState, toClient, hubSent>>
    /\ UNCHANGED <<xferVars, pjVars, wsClosed, dataVars>>

\* both descriptions are exchanged with the record's counterpart
Negotiated(rid) ==
    /\ ~pcs[rid].closed
    /\ pcs[rid].localDescription # 0
    /\ pcs[rid].remoteDescription # 0
    /\ pcs[rid].remoteDescription \in 1..Len(pcs)
    /\ pcs[pcs[rid].remoteDescription].remoteDescription = rid

\* channel.onopen (for the responder after pc.ondatachannel) and
\* pc.onconnectionstatechange 'connected'
OnDataChannelOpen(rid) ==
    /\ rid \in 1..Len(pcs)
    /\ Negotiated(rid)
    /\ ~pcs[pcs[rid].remoteDescription].closed
    /\ pcs[rid].dataChannel \in {"connecting", "null"}
    /\ LET e == pcs[rid].owner
           recs == [pcs EXCEPT ![rid].dataChannel = "open"]
       IN /\ pcs' = recs
          /\ cConnections' = [cConnections EXCEPT ![e] = ConnList(pcMap[e], recs)]
          /\ cStatus' = [cStatus EXCEPT ![e] = StatusAfterUpdate(e, pcMap[e], recs)]
    /\ UNCHANGED <<cPeerId, pcMap, tasks>>
    /\ UNCHANGED hubVars
    /\ UNCHANGED <<xferVars, pjVars, wsClosed, dataVars>>

\* pc.onconnectionstatechange 'failed'
OnConnectionFailed(rid) ==
    /\ rid \in 1..Len(pcs)
    /\ Negotiated(rid)
    /\ LET e == pcs[rid].owner
           recs == [pcs EXCEPT ![rid].closed = TRUE,
                               ![rid].dataChannel =
                                    IF @ = "null" THEN @ ELSE "closed"]
           m == MapRemove(pcMap[e], pcs[rid].remote)
       IN /\ pcs' = recs
          /\ pcMap' = [pcMap EXCEPT ![e] = m]
          /\ cConnections' = [cConnections EXCEPT ![e] = ConnList(m, recs)]
          /\ cStatus' = [cStatus EXCEPT ![e] = StatusAfterUpdate(e, m, recs)]
    /\ UNCHANGED <<cPeerId, tasks>>
    /\ UNCHANGED hubVars
    /\ UNCHANGED <<xferVars, pjVars, wsClosed, dataVars>>

\* ws.onclose of the client: fired once, when the link is down
ClientWsOnClose(e) ==
    /\ readyState[e] = "CLOSED"
    /\ ~wsClosed[e]
    /\ wsClosed' = [wsClosed EXCEPT ![e] = TRUE]
    /\ cStatus' = [cStatus EXCEPT ![e] = "error"]
    /\ UNCHANGED <<cPeerId, cConnections, pcMap, pcs, tasks>>
    /\ UNCHANGED hubVars
    /\ UNCHANGED <<xferVars, pjVars, dataVars>>

InitClientVars ==
    /\ cPeerId = [e \in PeerIds |-> 0]
    /\ cStatus = [e \in PeerIds |-> "disconnected"]
    /\ cConnections = [e \in PeerIds |-> <<>>]
    /\ pcMap = [e \in PeerIds |-> <<>>]
    /\ pcs = <<>>
    /\ tasks = {}
    /\ wsClosed = [e \in PeerIds |-> FALSE]

\* ------------------------------------------------------------------------
\* Hub-signalled client: files over the data channels (useWebRTC)
\* ------------------------------------------------------------------------

\* the remote peers whose data channel to the receiving client is open
Senders == 1..MaxSenders

\* the File objects a user may pick
DataFiles == [name : {"a.txt", "b.txt"}, size : {1, 2}]

\* `file-${Date.now()}`: a name made from the clock, not from any metadata
FallbackName == "file-<Date.now()>"

\* JSON.stringify(metadata) as JSON.parse gives it back on the other side
FileMetadata(file) ==
    [type |-> "file-metadata", name |-> file.name, size |-> file.size]

\* the ArrayBuffer file.arrayBuffer() resolves with: the bytes of send n
ArrayBufferOf(file, n) ==
    [type |-> "binary", byteLength |-> file.size, send |-> n]

\* the body shared by sendFileToPeer and by sendFile's forEach, for the channel
\* of sender x: the metadata is sent at once, the bytes when the read resolves
SendMetadataThenRead(x, file) ==
    /\ Len(appSends) < MaxSends
    /\ dataChannels' = [dataChannels EXCEPT ![x] = Append(@, FileMetadata(file))]
    /\ arrayBuffers' = arrayBuffers \cup
            {[from |-> x, file |-> file, send |-> Len(appSends) + 1]}
    /\ appSends' = Append(appSends, [from |-> x, file |-> file])
    /\ UNCHANGED <<fileMetadataRef, receivedFiles>>
    /\ UNCHANGED <<hubVars, xferVars, pjVars, clientVars>>

\* sendFile(file) on sender x, whose open connections are the receiver's alone
AppSendFile(x, file) == SendMetadataThenRead(x, file)

\* sendFileToPeer(file, remotePeerId) on sender x, for the receiver
AppSendFileToPeer(x, file) == SendMetadataThenRead(x, file)

\* file.arrayBuffer().then(buffer => dataChannel.send(buffer)): the reads of
\* several files resolve in any order
ArrayBufferResolves(r) ==
    /\ r \in arrayBuffers
    /\ arrayBuffers' = arrayBuffers \ {r}
    /\ dataChannels' = [dataChannels EXCEPT
            ![r.from] = Append(@, ArrayBufferOf(r.file, r.send))]
    /\ UNCHANGED <<appSends, fileMetadataRef, receivedFiles>>
    /\ UNCHANGED <<hubVars, xferVars, pjVars, clientVars>>

\* the mutated store: the metadata is kept in one slot shared by all senders
MetadataSetShared(m, fromPeerId, parsed) ==
    [i \in 1..MaxSenders |-> [peer |-> i, conn |-> parsed]]

\* fileMetadataRef.current.set(fromPeerId, parsed)
MetadataSet(m, fromPeerId, parsed) == MapSet(m, fromPeerId, parsed)

\* metadata?.name || `file-${Date.now()}`
Filename(m, fromPeerId) ==
    IF MapHas(m, fromPeerId) THEN MapGet(m, fromPeerId).name ELSE FallbackName

\* channel.onmessage of sender x's channel: handleIncomingData(data, x)
HandleIncomingData(fromPeerId) ==
    /\ dataChannels[fromPeerId] # <<>>
    /\ LET data == Head(dataChannels[fromPeerId]) IN
        IF data.type = "file-metadata"
        THEN /\ fileMetadataRef' = MetadataSet(fileMetadataRef, fromPeerId, data)
             /\ UNCHANGED receivedFiles
        ELSE /\ receivedFiles' = Append(receivedFiles,
                    [name |-> Filename(fileMetadataRef, fromPeerId),
                     size |-> data.byteLength,
                     from |-> fromPeerId, send |-> data.send])
             /\ fileMetadataRef' = MapRemove(fileMetadataRef, fromPeerId)
    /\ dataChannels' = [dataChannels EXCEPT ![fromPeerId] = Tail(@)]
    /\ UNCHANGED <<arrayBuffers, appSends>>
    /\ UNCHANGED <<hubVars, xferVars, pjVars, clientVars>>

InitDataVars ==
    /\ dataChannels = [x \in Senders |-> <<>>]
    /\ arrayBuffers = {}
    /\ appSends = <<>>
    /\ fileMetadataRef = <<>>
    /\ receivedFiles = <<>>

InitHubVars ==
    /\ peers = <<>>
    /\ readyState = [id \in PeerIds |-> "NONE"]
    /\ toHub = [id \in PeerIds |-> <<>>]
    /\ toClient = [id \in PeerIds |-> <<>>]
    /\ hubSent = 0

\* ------------------------------------------------------------------------
\* Specifications
\* ------------------------------------------------------------------------

InitHub == InitHubVars /\ InitXferVars /\ InitPJVars /\ InitClientVars
        /\ InitDataVars

NextHub ==
    \/ HubConnection
    \/ \E p \in PeerIds : HubMessage(p)
    \/ \E p \in PeerIds : LinkClosing(p)
    \/ \E p \in PeerIds : HubClose(p)
    \/ \E p \in PeerIds : RawSend(p)

SpecHub == InitHub /\ [][NextHub]_vars

InitXfer == InitHubVars /\ InitXferVars /\ InitPJVars /\ InitClientVars
        /\ InitDataVars

NextXfer ==
    \/ StartAsInitiator
    \/ ChannelOpen
    \/ ChannelClose
    \/ \E file \in Files : HandleFileSelect(file)
    \/ SendFile
    \/ \E tid \in 1..MaxTransfers : ReaderOnload(tid)
    \/ ChannelOnMessage
    \/ DownloadReceivedFile

SpecXfer == InitXfer /\ [][NextXfer]_vars

InitPeerJS == InitHubVars /\ InitXferVars /\ InitPJVars /\ InitClientVars
        /\ InitDataVars

ConnRefs == {ConnRef(k, side) : k \in 1..MaxPJConns, side \in {"out", "in"}}

NextPeerJS ==
    \/ \E p \in PJPeers : PeerOpen(p)
    \/ \E p \in PJPeers, remote \in PJPeers : PJConnectToPeer(p, remote)
    \/ \E k \in 1..MaxPJConns : OnConnection(k)
    \/ \E ref \in ConnRefs : ConnOnOpen(ref)
    \/ \E ref \in ConnRefs : ConnOnClose(ref)

SpecPeerJS == InitPeerJS /\ [][NextPeerJS]_vars

Init == InitHubVars /\ InitXferVars /\ InitPJVars /\ InitClientVars
        /\ InitDataVars

\* the steps of negotiation between the clients through the hub
Negotiation ==
    \/ (readyState[MaxClients] = "NONE" /\ HubConnection)
    \/ \E p \in ClientIds : HubMessage(p)
    \/ \E e \in ClientIds : OnPeerId(e)
    \/ \E e \in ClientIds : OnOffer(e)
    \/ \E e \in ClientIds : OnAnswer(e)
    \/ \E e \in ClientIds : OnError(e)
    \/ \E e \in ClientIds, remote \in ClientIds : ConnectToPeer(e, remote)
    \/ \E t \in tasks : SetRemoteDescriptionSettles(t)
    \/ \E t \in tasks : CreateDescriptionSettles(t)
    \/ \E t \in tasks : SetLocalDescriptionSettles(t)
    \/ \E rid \in 1..MaxRecords : OnDataChannelOpen(rid)
    \/ \E rid \in 1..MaxRecords : OnConnectionFailed(rid)

\* negotiation with candidates trickling, every hub link staying up
Next ==
    \/ Negotiation
    \/ \E e \in ClientIds : OnIceCandidateMessage(e)
    \/ \E t \in tasks : AddIceCandidateSettles(t)
    \/ \E rid \in 1..MaxRecords : PcOnIceCandidate(rid)

Spec == Init /\ [][Next]_vars

\* negotiation with hub links closing, no candidate being gathered
NextLink ==
    \/ Negotiation
    \/ \E p \in ClientIds : HubClose(p)
    \/ \E e \in ClientIds : OnPeerDisconnected(e)
    \/ \E e \in ClientIds : ClientWsOnClose(e)

SpecLink == Init /\ [][NextLink]_vars

\* negotiation with the hub and the transport working: every link stays up,
\* every promise resolves, no connection fails
NextDial ==
    \/ (readyState[MaxClients] = "NONE" /\ HubConnection)
    \/ \E p \in ClientIds : HubMessage(p)
    \/ \E e \in ClientIds : OnPeerId(e)
    \/ \E e \in ClientIds : OnOffer(e)
    \/ \E e \in ClientIds : OnAnswer(e)
    \/ \E e \in ClientIds : OnError(e)
    \/ \E e \in ClientIds, remote \in ClientIds : ConnectToPeer(e, remote)
    \/ \E t \in tasks : SetRemoteDescriptionSettlesAs(t, TRUE)
    \/ \E t \in tasks : CreateDescriptionSettlesAs(t, TRUE)
    \/ \E t \in tasks : SetLocalDescriptionSettlesAs(t, TRUE)
    \/ \E rid \in 1..MaxRecords : OnDataChannelOpen(rid)

\* the hub handles every message it was sent, each client's event loop runs
\* every handler whose event is queued, every pending promise settles and a
\* negotiated channel opens; when a user connects is left open
FairDial ==
    /\ \A p \in ClientIds : WF_vars(HubMessage(p))
    /\ \A e \in ClientIds :
        /\ WF_vars(OnPeerId(e))
        /\ WF_vars(OnOffer(e))
        /\ WF_vars(OnAnswer(e))
        /\ WF_vars(OnError(e))
    /\ \A rid \in 1..MaxRecords :
        /\ WF_vars(\E t \in tasks :
                    t.rid = rid /\ SetRemoteDescriptionSettlesAs(t, TRUE))
        /\ WF_vars(\E t \in tasks :
                    t.rid = rid /\ CreateDescriptionSettlesAs(t, TRUE))
        /\ WF_vars(\E t \in tasks :
                    t.rid = rid /\ SetLocalDescriptionSettlesAs(t, TRUE))
        /\ WF_vars(OnDataChannelOpen(rid))

SpecDial == Init /\ [][NextDial]_vars /\ FairDial

\* the receiving client with every sender's data channel open
InitData == InitHubVars /\ InitXferVars /\ InitPJVars /\ InitClientVars
        /\ InitDataVars

NextData ==
    \/ \E x \in Senders, file \in DataFiles : AppSendFile(x, file)
    \/ \E x \in Senders, file \in DataFiles : AppSendFileToPeer(x, file)
    \/ \E r \in arrayBuffers : ArrayBufferResolves(r)
    \/ \E x \in Senders : HandleIncomingData(x)

SpecData == InitData /\ [][NextData]_vars

\* ------------------------------------------------------------------------
\* Signaling server: properties
\* ------------------------------------------------------------------------

SignalTypes == {"offer", "answer", "ice-candidate"}

\* the step handles the next raw message of endpoint p
Handles(p) == toHub[p] # <<>> /\ toHub'[p] = Tail(toHub[p])

\* the content of a signalling or broadcast envelope: its number in send order
PayloadOf(env) ==
    CASE env.type = "offer" -> env.offer
      [] env.type = "answer" -> env.answer
      [] env.type = "ice-candidate" -> env.candidate
      [] env.type = "broadcast" -> env.data
      [] OTHER -> 0

TargetAvailable(data) ==
    /\ \E i \in 1..Len(peers) : peers[i] = data.targetPeerId
    /\ readyState[data.targetPeerId] = "OPEN"

\* env is data as the hub must forward it on behalf of endpoint p
IsForwardOf(env, data, p) ==
    /\ DOMAIN env = (DOMAIN data) \cup {"fromPeerId"}
    /\ env.fromPeerId = p
    /\ \A f \in (DOMAIN data) \ {"fromPeerId"} : env[f] = data[f]

\* C8: an offer, answer or ice-candidate whose target is registered with an
\* open link is delivered as exactly one copy to that target and to no other
\* endpoint, with fromPeerId set to the sender's hub-assigned identifier
\* whatever fromPeerId the sender supplied, and no error goes to the sender.
C8_ForwardToTargetOnly ==
    [][\A p \in PeerIds :
        (Handles(p) /\ Head(toHub[p]).type \in SignalTypes
                    /\ TargetAvailable(Head(toHub[p])))
        => LET data == Head(toHub[p])
               t == data.targetPeerId
           IN /\ Len(toClient'[t]) = Len(toClient[t]) + 1
              /\ SubSeq(toClient'[t], 1, Len(toClient[t])) = toClient[t]
              /\ IsForwardOf(toClient'[t][Len(toClient'[t])], data, p)
              /\ \A q \in PeerIds \ {t} : toClient'[q] = toClient[q]
      ]_vars

\* C8 witness: endpoint t holds an envelope forwarded on behalf of another
\* endpoint s, while a third endpoint with an open link received nothing but
\* its peer-id envelope.
C8_Witness ==
    \E t \in PeerIds, s \in PeerIds \ {MaxPeers}, o \in PeerIds :
        /\ t # s /\ o # t /\ o # s
        /\ readyState[o] = "OPEN" /\ Len(toClient[o]) = 1
        /\ \E i \in 1..Len(toClient[t]) :
              /\ toClient[t][i].type \in SignalTypes
              /\ toClient[t][i].fromPeerId = s
              /\ toClient[t][i].targetPeerId = t

\* C9: an offer, answer or ice-candidate whose target is not registered, or
\* whose link is not open, makes the hub send exactly one error envelope
\* 'Peer <target> not available' to the sender and to nobody else; nothing is
\* forwarded, and the hub keeps no copy: every signalling envelope an
\* endpoint ever receives is the message being handled in that very step.
C9_UnavailableTargetError ==
    [][/\ \A p \in PeerIds :
            (Handles(p) /\ Head(toHub[p]).type \in SignalTypes
                        /\ ~TargetAvailable(Head(toHub[p])))
            => /\ toClient'[p] = Append(toClient[p],
                      [type |-> "error",
                       message |-> <<"Peer", Head(toHub[p]).targetPeerId,
                                     "not available">>])
               /\ \A q \in PeerIds \ {p} : toClient'[q] = toClient[q]
       /\ \A q \in PeerIds :
            (/\ Len(toClient'[q]) > Len(toClient[q])
             /\ toClient'[q][Len(toClient'[q])].type \in SignalTypes)
            => \E p \in PeerIds :
                 /\ Handles(p)
                 /\ Head(toHub[p]).type \in SignalTypes
                 /\ Head(toHub[p]).targetPeerId = q
                 /\ TargetAvailable(Head(toHub[p]))
                 /\ PayloadOf(toClient'[q][Len(toClient'[q])])
                        = PayloadOf(Head(toHub[p]))
      ]_vars

\* C9 witness: a sender holds the error for a target whose link was closing
\* but still registered, and the target received nothing after that.
C9_Witness ==
    \E p \in PeerIds, t \in PeerIds :
        /\ t # p
        /\ readyState[t] = "CLOSING"
        /\ \E i \in 1..Len(peers) : peers[i] = t
        /\ Len(toClient[t]) = 1
        /\ toHub[p] = <<>>
        /\ \E i \in 1..Len(toClient[p]) :
              toClient[p][i] = [type |-> "error",
                                message |-> <<"Peer", t, "not available">>]

\* the envelopes of q that were forwarded on behalf of s
FromSender(q, s) ==
    SelectSeq(toClient[q],
        LAMBDA env : env.type \in SignalTypes \cup {"broadcast"}
                     /\ env.fromPeerId = s)

\* C10: for any sender and any single target, the envelopes the hub forwards
\* to that target arrive in the order the sender sent them.
C10_PerTargetOrder ==
    \A q \in PeerIds, s \in PeerIds :
        LET fwd == FromSender(q, s) IN
        \A i \in 1..Len(fwd), j \in 1..Len(fwd) :
            i < j => PayloadOf(fwd[i]) < PayloadOf(fwd[j])

\* C10 witness: a target holds two envelopes forwarded for one sender.
C10_Witness ==
    \E q \in PeerIds, s \in PeerIds :
        /\ s # q
        /\ Len(FromSender(q, s)) >= 2
        /\ \E i \in 1..Len(toClient[q]) : toClient[q][i].type \in SignalTypes

\* ------------------------------------------------------------------------
\* Chunked file transfer: properties
\* ------------------------------------------------------------------------

\* ceil(a / b)
Ceil(a, b) == (a + b - 1) \div b

Min(a, b) == IF a <= b THEN a ELSE b

\* the chunks of a file of size S cut at multiples of CHUNK_SIZE
ChunksOf(file) ==
    [i \in 1..Ceil(file.size, CHUNK_SIZE) |->
        [file |-> file, offset |-> (i - 1) * CHUNK_SIZE,
         byteLength |-> Min(CHUNK_SIZE, file.size - (i - 1) * CHUNK_SIZE)]]

\* the bytes of a Blob built from frames: their data, empty ones left out
RECURSIVE BlobBytes(_)
BlobBytes(frames) ==
    IF frames = <<>> THEN <<>>
    ELSE IF Head(frames).data.byteLength = 0 THEN BlobBytes(Tail(frames))
    ELSE <<Head(frames).data>> \o BlobBytes(Tail(frames))

RECURSIVE ByteLength(_)
ByteLength(frames) ==
    IF frames = <<>> THEN 0
    ELSE Head(frames).data.byteLength + ByteLength(Tail(frames))

\* the frames of transfer tid, in the order they were passed to channel.send
FramesOf(tid) == SelectSeq(sentLog, LAMBDA f : f.tid = tid)

\* C5: for every file of size S sent over an open, ordered, reliable channel,
\* the artifact the receiver assembles at the end marker has byte length S
\* and consists of the sender's chunks of that file in the order sent.
C5_AssembledEqualsFile ==
    receivedFile # Null =>
        LET file == readers[receivedFile.tid].file IN
        /\ ByteLength(receivedFile.blob) = file.size
        /\ BlobBytes(receivedFile.blob) = ChunksOf(file)

\* C6: for every file size S, S = 0 included, the receiver sees exactly
\* ceil(S / CHUNK_SIZE) binary messages between the metadata message and the
\* end marker.
C6_CeilChunkCount ==
    receivedFile # Null =>
        Len(receivedFile.blob)
            = Ceil(readers[receivedFile.tid].file.size, CHUNK_SIZE)

\* C7: each transfer appears on the channel as exactly one metadata message,
\* then only binary chunks of its file in strictly increasing offset order,
\* then exactly one end marker naming the same file; no chunk of the transfer
\* is sent before its metadata or after its end marker.
C7_TransferFraming ==
    /\ \A i \in 1..Len(sentLog) : sentLog[i].tid \in 1..Len(readers)
    /\ \A tid \in 1..Len(readers) :
        LET fr == FramesOf(tid)
            file == readers[tid].file
            n == Len(fr)
        IN /\ n >= 1
           /\ fr[1].type = "file-meta"
           /\ fr[1].name = file.name /\ fr[1].size = file.size
           /\ \A i \in 2..n :
                \/ /\ fr[i].type = "binary"
                   /\ fr[i].data.file = file
                   /\ fr[i - 1].type \in {"file-meta", "binary"}
                   /\ fr[i - 1].type = "binary"
                        => fr[i - 1].data.offset < fr[i].data.offset
                \/ /\ fr[i].type = "file-end"
                   /\ i = n
                   /\ fr[i].name = file.name
           /\ (readers[tid].state = "done") <=> (fr[n].type = "file-end")

\* C7 witness: a transfer of more than one chunk has sent its end marker.
C7_Witness ==
    \E tid \in 1..Len(readers) :
        /\ readers[tid].state = "done"
        /\ readers[tid].file.size > CHUNK_SIZE
        /\ Len(FramesOf(tid)) >= 4

\* ------------------------------------------------------------------------
\* PeerJS client: properties
\* ------------------------------------------------------------------------

\* the DataConnection objects endpoint p holds with remote q that are neither
\* closed nor discarded
LiveEnds(p, q) ==
    {ref \in {ConnRef(k, side) : k \in 1..Len(pjConns), side \in {"out", "in"}} :
        /\ OwnerOf(ref) = p
        /\ RemoteOf(ref) = q
        /\ EndState(pjConns, ref) \in {"pending", "open"}}

\* attempts k1 and k2 cross: each incoming connection arrived after the other
\* endpoint had made its own outgoing attempt
Crossed(k1, k2) ==
    /\ pjConns[k1].from = pjConns[k2].to
    /\ pjConns[k1].to = pjConns[k2].from
    /\ pjConns[k1].in # "none" /\ pjConns[k1].inAt >= k2
    /\ pjConns[k2].in # "none" /\ pjConns[k2].inAt >= k1

\* C1: when endpoints A < B each initiate a connection to the other
\* concurrently, A discards B's incoming connection and keeps its own
\* outgoing one, and B accepts A's incoming connection and discards its own
\* outgoing one, whatever the order of the events.
C1_TieBreakDeterminism ==
    \A k1 \in 1..Len(pjConns), k2 \in 1..Len(pjConns) :
        (pjConns[k1].from < pjConns[k1].to /\ Crossed(k1, k2))
        => /\ ~pjConns[k2].handled
           /\ pjConns[k2].in = "closed"
           /\ pjConns[k1].handled
           /\ pjConns[k2].out = "closed"

\* C2: an endpoint holds at most one live (not closed, not discarded) peer
\* connection per remote identifier in every reachable state.
C2_OneLiveConnectionPerPeer ==
    \A p \in PJPeers, q \in PJPeers : Cardinality(LiveEnds(p, q)) <= 1

\* ------------------------------------------------------------------------
\* Hub-signalled client: properties
\* ------------------------------------------------------------------------

\* the flush loop of record rid is running
FlushActive(rid) == \E t \in tasks : t.rid = rid /\ t.step = "flush"

\* the candidates of `calls` that were buffered, in call order
BufferedCalls(calls, buffered) ==
    SelectSeq(calls, LAMBDA c : \E j \in 1..Len(buffered) : buffered[j] = c)

\* C3: once a record's remote description is set and its flush is over, every
\* candidate that was buffered before has been passed to addIceCandidate
\* exactly once, in arrival order.
C3_BufferedCandidatesFlushed ==
    \A rid \in 1..Len(pcs) :
        (/\ ~pcs[rid].closed
         /\ pcs[rid].remoteDescription # 0
         /\ ~FlushActive(rid))
        => BufferedCalls(pcs[rid].addCalls, pcs[rid].buffered)
                = pcs[rid].buffered

\* C4: a step that takes an offer from a source the endpoint already has a
\* record for creates no record, changes no record, starts no handler and
\* sends nothing.
C4_DuplicateOfferNoOp ==
    [][\A e \in ClientIds :
        (/\ Arrived(e, "offer")
         /\ toClient'[e] = Tail(toClient[e])
         /\ MapHas(pcMap[e], Head(toClient[e]).fromPeerId))
        => UNCHANGED <<pcs, pcMap, tasks, toHub, cStatus, cConnections>>]_vars

\* both endpoints dialled each other, both offers were sent and taken by the
\* other side, and each was dropped: no responder record, no answer, nothing
\* left in flight
C4_Witness ==
    /\ Len(pcs) = 2
    /\ \A rid \in 1..2 : pcs[rid].initiator /\ pcs[rid].localDescription # 0
    /\ pcs[1].owner = pcs[2].remote /\ pcs[2].owner = pcs[1].remote
    /\ pcs[1].owner # pcs[2].owner
    /\ pcs[1].gathered = 0 /\ pcs[2].gathered = 0
    /\ tasks = {}
    /\ \A e \in ClientIds : WsOpen(e) /\ toHub[e] = <<>> /\ toClient[e] = <<>>


\* ------------------------------------------------------------------------
\* Signaling server: disconnects
\* ------------------------------------------------------------------------

PeerDisconnected(p) == [type |-> "peer-disconnected", peerId |-> p]

\* the number of envelopes of q equal to env
CountOf(q, env) == Len(SelectSeq(q, LAMBDA x : x = env))

\* C11: the step in which endpoint p's link closes removes p from the registry
\* and appends one peer-disconnected envelope naming p to every other
\* registered endpoint whose link is open, and to nobody else; over a whole
\* run no endpoint gets more than one such envelope about p, and p gets none.
C11_DisconnectNotifiesOthersOnce ==
    /\ [][\A p \in PeerIds :
            (readyState[p] # "CLOSED" /\ readyState'[p] = "CLOSED")
            => /\ ~(\E i \in 1..Len(peers') : peers'[i] = p)
               /\ \A q \in PeerIds :
                    toClient'[q] =
                        IF q # p /\ Registered(q) /\ readyState[q] = "OPEN"
                        THEN Append(toClient[q], PeerDisconnected(p))
                        ELSE toClient[q]]_vars
    /\ [](\A p \in PeerIds, q \in PeerIds :
            /\ CountOf(toClient[q], PeerDisconnected(p)) <= 1
            /\ CountOf(toClient[q], PeerDisconnected(p)) = 1
                    => q # p /\ readyState[p] = "CLOSED")

\* a link closed while two other endpoints were registered, one with an open
\* link and one whose link was closing: only the former was told
C11_Witness ==
    \E p \in PeerIds, q \in PeerIds, r \in PeerIds :
        /\ readyState[p] = "CLOSED" /\ q # p /\ r # p /\ q # r
        /\ CountOf(toClient[q], PeerDisconnected(p)) = 1
        /\ readyState[r] # "NONE"
        /\ CountOf(toClient[r], PeerDisconnected(p)) = 0
        /\ CountOf(toClient[p], PeerDisconnected(p)) = 0

\* ------------------------------------------------------------------------
\* Hub-signalled client: disconnects
\* ------------------------------------------------------------------------

\* endpoint e takes an envelope of this type from the hub in this step
Takes(e, type) == Arrived(e, type) /\ toClient'[e] = Tail(toClient[e])

\* C12: a peer connection whose data channel is open is never closed by the
\* step in which its owner handles a message of the hub; it is closed only
\* when its own transport reports failure or closure.
C12_NoCloseByHubMessage ==
    [][\A rid \in 1..Len(pcs) :
        (/\ pcs[rid].dataChannel = "open"
         /\ ~pcs[rid].closed
         /\ pcs'[rid].closed)
        => ~(\E type \in {"peer-id", "offer", "answer", "ice-candidate",
                          "peer-disconnected", "error"} :
                Takes(pcs[rid].owner, type))]_vars

\* C13: an endpoint has a data channel for a peer (created by it, or received
\* from the peer) only when the record has both its local and its remote
\* description applied.
C13_DescriptionsBeforeChannel ==
    \A rid \in 1..Len(pcs) :
        pcs[rid].dataChannel # "null"
        => pcs[rid].localDescription # 0 /\ pcs[rid].remoteDescription # 0

\* ------------------------------------------------------------------------
\* Hub-signalled client: failures of negotiation
\* ------------------------------------------------------------------------

\* the handler t, suspended at setRemoteDescription or createAnswer, resumes
\* in this step with the operation fulfilled
Fulfilled(t) ==
    \/ /\ t.step = "setRemote"
       /\ pcs[t.rid].remoteDescription # t.desc
       /\ pcs'[t.rid].remoteDescription = t.desc
    \/ /\ t.step = "createAnswer"
       /\ [t EXCEPT !.step = "setLocal"] \in tasks'

\* the description envelopes endpoint e has handed to its socket in this step
NewDescriptions(e) ==
    IF Len(toHub'[e]) > Len(toHub[e])
          /\ toHub'[e][Len(toHub'[e])].type \in {"offer", "answer"}
    THEN {toHub'[e][Len(toHub'[e])]}
    ELSE {}

Recomputes(e) ==
    \E rid \in 1..Len(pcs) :
        /\ pcs[rid].owner = e
        /\ \/ pcs'[rid].dataChannel # pcs[rid].dataChannel
           \/ pcs'[rid].closed # pcs[rid].closed

\* C15: after each recomputation the status is connected if a registered
\* peer has an open data channel, else disconnected if the relay link is
\* open, else error.
C15_StatusDerivation ==
    [][\A e \in ClientIds :
        Recomputes(e)
        => cStatus'[e] =
              IF Len(ConnList(pcMap'[e], pcs')) > 0 THEN "connected"
              ELSE IF WsOpen(e) THEN "disconnected"
              ELSE "error"]_vars

C17_SendOnlyOnOpenChannel ==
    \A tid \in 1..Len(readers) : readers[tid].state # "failed"

\* ------------------------------------------------------------------------
\* Manual-exchange app: inbound sessions
\* ------------------------------------------------------------------------

\* the receiving instance handles a frame of this type in this step
Receives(type) ==
    /\ dcFrames # <<>>
    /\ Head(dcFrames).type = type
    /\ dcFrames' = Tail(dcFrames)
    /\ dcState' = dcState

\* C18: a file-meta frame that arrives while a session is open empties the
\* chunk buffer and opens a session with 0 bytes received; from then on the
\* buffer only grows by the chunks received, and the next file-end assembles
\* exactly the buffer: the chunks received after the latest file-meta.
C18_MetadataResetsSession ==
    [][/\ (Receives("file-meta") /\ rFileTransfer # Null)
            => /\ receivedBuffer' = <<>>
               /\ rFileTransfer' = [name |-> Head(dcFrames).name,
                                    size |-> Head(dcFrames).size,
                                    received |-> 0]
       /\ (Receives("binary") /\ rFileTransfer # Null)
            => /\ receivedBuffer' = Append(receivedBuffer, Head(dcFrames))
               /\ rFileTransfer'.received =
                    rFileTransfer.received + Head(dcFrames).data.byteLength
       /\ Receives("file-end")
            => receivedFile'.blob = receivedBuffer]_vars

\* the sender sent file-meta, a chunk and then the file-meta of a second
\* transfer; the receiver has handled all three and holds an empty session
C18_Witness ==
    /\ Len(sentLog) = 3
    /\ sentLog[1].type = "file-meta" /\ sentLog[1].tid = 1
    /\ sentLog[2].type = "binary" /\ sentLog[2].data.byteLength > 0
    /\ sentLog[3].type = "file-meta" /\ sentLog[3].tid = 2
    /\ dcState = "open"
    /\ dcFrames = <<>>
    /\ receivedBuffer = <<>>
    /\ rFileTransfer # Null
    /\ rFileTransfer.received = 0

\* C19: a binary chunk handled while no inbound session is open leaves the
\* chunk buffer and the session as they are.
C19_ChunkWithoutSessionDropped ==
    [][(Receives("binary") /\ rFileTransfer = Null)
        => /\ receivedBuffer' = receivedBuffer
           /\ rFileTransfer' = Null]_vars

\* C20: when the data channel closes, the inbound transfer state held for the
\* peer is discarded: the chunk buffer is empty and no session is open after
\* the close has been handled.
C20_CloseDiscardsInboundState ==
    [][(dcState = "open" /\ dcState' = "closed")
        => /\ receivedBuffer' = <<>>
           /\ rFileTransfer' = Null]_vars

\* ------------------------------------------------------------------------
\* Signaling server: identifiers, peer lists, broadcasts, malformed messages
\* ------------------------------------------------------------------------

\* the envelopes of this type among those sent to an endpoint
OfType(q, type) == SelectSeq(q, LAMBDA env : env.type = type)

\* C22: an endpoint that has connected is registered while its link is up, the
\* first envelope sent to it is the peer-id envelope carrying the identifier
\* it is registered under, and no other peer-id envelope is ever sent to it.
C22_OnePeerIdFirst ==
    \A p \in PeerIds :
        /\ readyState[p] \in {"OPEN", "CLOSING"} <=> Registered(p)
        /\ readyState[p] = "NONE" => toClient[p] = <<>>
        /\ readyState[p] # "NONE"
            => /\ toClient[p] # <<>>
               /\ toClient[p][1] = [type |-> "peer-id", peerId |-> p]
               /\ Len(OfType(toClient[p], "peer-id")) = 1

\* an endpoint is registered and was sent further envelopes after its peer-id
C22_Witness ==
    \E p \in PeerIds :
        /\ Registered(p)
        /\ Len(toClient[p]) >= 3
        /\ toClient[p][1].type = "peer-id"

\* the set of identifiers currently in the registry
RegistryIds == {peers[i] : i \in 1..Len(peers)}

\* q received exactly the envelope env in this step, after what it had
ReceivesOne(q, env) == toClient'[q] = Append(toClient[q], env)

\* C23: the reply to list-peers goes to the requester only; it is one
\* peer-list envelope naming, each once, exactly the identifiers in the
\* registry at that moment except the requester's own.
C23_PeerListReply ==
    [][\A p \in PeerIds :
        (Handles(p) /\ Head(toHub[p]).type = "list-peers")
        => /\ Len(toClient'[p]) = Len(toClient[p]) + 1
           /\ LET reply == toClient'[p][Len(toClient'[p])]
                  list == reply.peers
              IN /\ ReceivesOne(p, [type |-> "peer-list", peers |-> list])
                 /\ Len(list) = Cardinality(RegistryIds \ {p})
                 /\ {list[i] : i \in 1..Len(list)} = RegistryIds \ {p}
           /\ \A q \in PeerIds \ {p} : toClient'[q] = toClient[q]
      ]_vars

\* C23 witness: after a connect and a disconnect, a requester holds a peer list
\* naming the one other endpoint still registered, and not itself.
C23_Witness ==
    \E p \in PeerIds, gone \in PeerIds :
        /\ gone # p
        /\ readyState[gone] = "CLOSED"
        /\ \E i \in 1..Len(toClient[p]) :
              /\ toClient[p][i].type = "peer-list"
              /\ Len(toClient[p][i].peers) = 1
              /\ toClient[p][i].peers[1] \notin {p, gone}

\* C24: a broadcast is delivered as exactly one envelope to every other
\* registered endpoint whose link is open, carrying the sender's hub-assigned
\* identifier and the sender's data; the sender itself receives nothing.
C24_BroadcastToOthersOnce ==
    [][\A p \in PeerIds :
        (Handles(p) /\ Head(toHub[p]).type = "broadcast")
        => LET data == Head(toHub[p]) IN
           /\ \A q \in PeerIds \ {p} :
                (q \in RegistryIds /\ readyState[q] = "OPEN")
                => ReceivesOne(q, [type |-> "broadcast", fromPeerId |-> p,
                                   data |-> data.data])
           /\ toClient'[p] = toClient[p]
      ]_vars

\* C24 witness: two endpoints each hold one broadcast of a third, who supplied
\* a fromPeerId of its own and holds nothing but its peer-id envelope.
C24_Witness ==
    \E s \in PeerIds \ {MaxPeers} :
        /\ Len(toClient[s]) = 1
        /\ toHub[s] = <<>>
        /\ \A q \in PeerIds \ {s} :
              /\ Len(OfType(toClient[q], "broadcast")) = 1
              /\ OfType(toClient[q], "broadcast")[1].fromPeerId = s

\* C25: a message that fails to parse is answered with exactly one error
\* envelope, to its sender only; the registry and every link state are as
\* before, no other endpoint receives anything, and the sender's later messages
\* stay queued for processing.
C25_MalformedAnsweredOnce ==
    [][\A p \in PeerIds :
        (Handles(p) /\ Head(toHub[p]).type = "malformed")
        => /\ ReceivesOne(p, [type |-> "error",
                              message |-> <<"Invalid message format">>])
           /\ \A q \in PeerIds \ {p} : toClient'[q] = toClient[q]
           /\ peers' = peers
           /\ readyState' = readyState
           /\ readyState[p] = "OPEN"
           /\ p \in RegistryIds
           /\ toHub' = [toHub EXCEPT ![p] = Tail(@)]
      ]_vars

\* C25 witness: an endpoint was sent the error for its malformed message and
\* then the peer list its next message asked for.
C25_Witness ==
    \E p \in PeerIds : \E i \in 1..Len(toClient[p]) :
        /\ i < Len(toClient[p])
        /\ toClient[p][i] = [type |-> "error",
                             message |-> <<"Invalid message format">>]
        /\ toClient[p][i + 1].type = "peer-list"
        /\ readyState[p] = "OPEN"

\* ------------------------------------------------------------------------
\* PeerJS client: the registry entry of an open connection
\* ------------------------------------------------------------------------

\* the connection object registered for remote P at endpoint id is open, and
\* is still open after the step
StaysOpenRegistered(id, P) ==
    /\ MapHas(connectionsRef[id], P)
    /\ EndState(pjConns, MapGet(connectionsRef[id], P)) = "open"
    /\ EndState(pjConns', MapGet(connectionsRef[id], P)) = "open"

\* C27: while the data connection registered for remote P is open, P stays in
\* the connection registry and in the connections list, and the status is not
\* set to disconnected: a step in which that connection does not close (such
\* as the close of another connection object to P) removes neither.
C27_EntryLivesWithItsConnection ==
    [][\A id \in PJPeers, P \in PJPeers :
        StaysOpenRegistered(id, P)
        => /\ MapHas(connectionsRef'[id], P)
           /\ \E i \in 1..Len(pjConnections'[id]) : pjConnections'[id][i] = P
           /\ pjStatus'[id] = "disconnected" => pjStatus[id] = "disconnected"
      ]_vars

\* ------------------------------------------------------------------------
\* Manual-exchange app: transfers following each other on one channel
\* ------------------------------------------------------------------------

\* C29: on one data channel the frames of two transfers never interleave: no
\* metadata, chunk or end marker of a transfer started later is sent before
\* the end marker of a transfer started earlier.
C29_TransfersDoNotInterleave ==
    \A j \in 1..Len(sentLog) : \A first \in 1..(sentLog[j].tid - 1) :
        \E i \in 1..(j - 1) :
            sentLog[i].tid = first /\ sentLog[i].type = "file-end"

\* ------------------------------------------------------------------------
\* Hub-signalled client: candidates delivered during a negotiation
\* ------------------------------------------------------------------------

\* endpoint e handles an ice-candidate envelope in this step
TakesCandidate(e) == Takes(e, "ice-candidate")

\* a handler of record rid is still applying a description or flushing
Applying(rid) ==
    \E t \in tasks : t.rid = rid /\ t.step \in {"setRemote", "flush"}

\* candidate c was passed to addIceCandidate of record rid
Applied(rid, c) ==
    \E i \in 1..Len(pcs[rid].addCalls) : pcs[rid].addCalls[i] = c

\* C28: no ice-candidate envelope delivered from peer P during a negotiation
\* with P is lost: the step that handles it passes it to addIceCandidate or
\* appends it to the buffer of P's record, and once the remote description is
\* applied and the handler that applied it is over, every buffered candidate
\* has been passed to addIceCandidate.
C28_NoCandidateLost ==
    /\ [][\A e \in ClientIds :
            (TakesCandidate(e)
                /\ MapHas(pcMap[e], Head(toClient[e]).fromPeerId))
            => LET message == Head(toClient[e])
                   rid == MapGet(pcMap[e], message.fromPeerId)
               IN \/ pcs'[rid].addCalls
                        = Append(pcs[rid].addCalls, message.candidate)
                  \/ pcs'[rid].pendingIceCandidates
                        = Append(pcs[rid].pendingIceCandidates,
                                 message.candidate)
         ]_vars
    /\ [](\A rid \in 1..Len(pcs) :
            (/\ ~pcs[rid].closed
             /\ pcs[rid].remoteDescription # 0
             /\ ~Applying(rid))
            => \A j \in 1..Len(pcs[rid].buffered) :
                    Applied(rid, pcs[rid].buffered[j]))

\* ------------------------------------------------------------------------
\* Hub-signalled client: both endpoints connect at the same time
\* ------------------------------------------------------------------------

\* endpoint e called connectToPeer for remote and its offer is not sent yet
Dialing(e, remote) ==
    /\ readyState[e] = "OPEN"
    /\ MapHas(pcMap[e], remote)
    /\ pcs[MapGet(pcMap[e], remote)].initiator
    /\ \E t \in tasks : t.rid = MapGet(pcMap[e], remote) /\ t.kind = "connect"

\* two endpoints registered at the hub have each called connectToPeer for the
\* other, and neither offer has left its sender
MutualDial == Dialing(1, 2) /\ Dialing(2, 1)

\* endpoint e has an open data channel with remote and lists it as connected
ConnectedTo(e, remote) ==
    /\ MapHas(pcMap[e], remote)
    /\ pcs[MapGet(pcMap[e], remote)].dataChannel = "open"
    /\ \E i \in 1..Len(cConnections[e]) : cConnections[e][i] = remote

\* C26: if two registered endpoints each call connectToPeer for the other
\* before either has received the other's offer then, with the hub and the
\* transport working and fair scheduling, a data channel between them
\* eventually opens and each lists the other as connected.
C26_MutualDialCompletes ==
    MutualDial ~> (ConnectedTo(1, 2) /\ ConnectedTo(2, 1))

\* ------------------------------------------------------------------------
\* Hub-signalled client: inbound files
\* ------------------------------------------------------------------------

\* the receiver handles the next message of sender x's channel in this step
HandlesDataOf(x) ==
    dataChannels[x] # <<>> /\ dataChannels'[x] = Tail(dataChannels[x])

\* the received-file records whose payload came from sender y
RecordsOf(files, y) == SelectSeq(files, LAMBDA f : f.from = y)

\* C21: inbound transfer state is keyed per sender: a metadata or payload
\* message received from sender x changes neither the metadata stored for
\* another sender y, nor the name y's next file will get, nor the
\* received-file records of y's payloads.
C21_KeyedPerSender ==
    [][\A x \in Senders, y \in Senders :
        (HandlesDataOf(x) /\ y # x)
        => /\ MapHas(fileMetadataRef', y) = MapHas(fileMetadataRef, y)
           /\ MapHas(fileMetadataRef, y)
                => MapGet(fileMetadataRef', y) = MapGet(fileMetadataRef, y)
           /\ Filename(fileMetadataRef', y) = Filename(fileMetadataRef, y)
           /\ RecordsOf(receivedFiles', y) = RecordsOf(receivedFiles, y)
      ]_vars

\* C21 witness: while metadata naming another file is stored for sender 2, a
\* payload of sender 1 was recorded under the name of sender 1's metadata,
\* and sender 2's payload is still to come.
C21_Witness ==
    /\ MapHas(fileMetadataRef, 2)
    /\ MapGet(fileMetadataRef, 2).name = "b.txt"
    /\ dataChannels[2] # <<>>
    /\ Head(dataChannels[2]).type = "binary"
    /\ RecordsOf(receivedFiles, 1) # <<>>
    /\ RecordsOf(receivedFiles, 1)[1].name = "a.txt"

\* C30: when a sender calls sendFile or sendFileToPeer several times in
\* succession for the same peer, the receiver records each received payload
\* under the name carried by the metadata message sent for that same file.
C30_PayloadUnderItsOwnName ==
    \A i \in 1..Len(receivedFiles) :
        receivedFiles[i].name = appSends[receivedFiles[i].send].file.name

\* ------------------------------------------------------------------------
\* Signaling server: the registry
\* ------------------------------------------------------------------------

\* the endpoints whose link has connected and has not yet closed
Connected == {p \in PeerIds : readyState[p] \in {"OPEN", "CLOSING"}}

\* C39: in every hub state the registry holds exactly one entry for each
\* endpoint whose link has connected and not yet closed, under the identifier
\* that endpoint was sent in its peer-id envelope; a disconnect removes the
\* disconnecting endpoint's entry and no other.
C39_RegistryIsConnectedEndpoints ==
    /\ [](/\ Len(peers) = Cardinality(Connected)
          /\ {peers[i] : i \in 1..Len(peers)} = Connected
          /\ \A p \in Connected :
                /\ toClient[p] # <<>>
                /\ toClient[p][1].type = "peer-id"
                /\ toClient[p][1].peerId = p)
    /\ [][\A p \in PeerIds :
            (p \in Connected /\ readyState'[p] = "CLOSED")
            => /\ peers' = SelectSeq(peers, LAMBDA id : id # p)
               /\ Len(peers') = Len(peers) - 1
         ]_vars

\* C39 witness: one endpoint has disconnected and the two that connected with
\* it, one before and one after, are both still in the registry.
C39_Witness ==
    /\ readyState[2] = "CLOSED"
    /\ peers = <<1, 3>>
    /\ readyState[1] = "OPEN"
    /\ readyState[3] = "OPEN"

\* ------------------------------------------------------------------------
\* Manual-exchange app: chunk sizes, received files
\* ------------------------------------------------------------------------

\* the byte lengths of the binary frames of transfer tid, in send order
ChunkLengths(tid) ==
    LET ch == SelectSeq(FramesOf(tid), LAMBDA f : f.type = "binary")
    IN [i \in 1..Len(ch) |-> ch[i].data.byteLength]

\* C37: every binary chunk frame the sender emits is at most CHUNK_SIZE
\* (16384) bytes, and every chunk of a transfer except its last is exactly
\* CHUNK_SIZE bytes; a 40000-byte file yields 16384, 16384 and 7232 bytes.
C37_ChunkSizes ==
    \A tid \in 1..Len(readers) :
        LET len == ChunkLengths(tid) IN
        /\ \A i \in 1..Len(len) :
            /\ len[i] <= 16384
            /\ i < Len(len) => len[i] = 16384
        /\ (readers[tid].state = "done" /\ readers[tid].file.size = 40000)
            => len = <<16384, 16384, 7232>>

\* C37 witness: a transfer whose file is not a whole number of chunks has sent
\* its end marker after a short last chunk.
C37_Witness ==
    \E tid \in 1..Len(readers) :
        /\ readers[tid].state = "done"
        /\ Len(ChunkLengths(tid)) = MaxChunks + 1
        /\ ChunkLengths(tid)[MaxChunks + 1] = 7232

\* C38: a file whose end marker has been received stays available for
\* download until the user downloads it: the received file changes only by
\* being downloaded, and the completion of a later transfer does not replace
\* it.
C38_ReceivedFileKeptUntilDownload ==
    [][(receivedFile # Null /\ receivedFile' # receivedFile)
        => (receivedFile' = Null /\ dcFrames' = dcFrames)]_vars

\* ------------------------------------------------------------------------
\* Hub-signalled client: the candidate queue after the remote description
\* ------------------------------------------------------------------------

\* every candidate buffered for record rid was passed to addIceCandidate
AllFlushed(rid) ==
    \A j \in 1..Len(pcs[rid].buffered) : Applied(rid, pcs[rid].buffered[j])

\* C36: once the remote description has been applied for a record and its
\* buffered candidates flushed, the buffered-candidate queue is empty, and it
\* stays empty: a candidate that arrives for a record whose remote
\* description is set is passed to addIceCandidate at once and not enqueued.
C36_QueueEmptyAfterFlush ==
    /\ [](\A rid \in 1..Len(pcs) :
            (/\ ~pcs[rid].closed
             /\ pcs[rid].remoteDescription # 0
             /\ ~Applying(rid)
             /\ AllFlushed(rid))
            => pcs[rid].pendingIceCandidates = <<>>)
    /\ [][\A e \in ClientIds :
            (TakesCandidate(e)
                /\ MapHas(pcMap[e], Head(toClient[e]).fromPeerId))
            => LET message == Head(toClient[e])
                   rid == MapGet(pcMap[e], message.fromPeerId)
               IN pcs[rid].remoteDescription # 0
                  => /\ pcs'[rid].pendingIceCandidates
                            = pcs[rid].pendingIceCandidates
                     /\ pcs'[rid].addCalls
                            = Append(pcs[rid].addCalls, message.candidate)
         ]_vars

\* ------------------------------------------------------------------------
\* Hub-signalled client: connectToPeer
\* ------------------------------------------------------------------------

\* connectToPeer(T) on endpoint e takes effect in this step: an initiator
\* record for T is created
Dials(e, T) ==
    /\ Len(pcs') = Len(pcs) + 1
    /\ pcs'[Len(pcs')].owner = e
    /\ pcs'[Len(pcs')].remote = T
    /\ pcs'[Len(pcs')].initiator

\* endpoint e sends an offer addressed to T in this step
SendsOffer(e, T) ==
    /\ Len(toHub'[e]) = Len(toHub[e]) + 1
    /\ toHub'[e][Len(toHub'[e])].type = "offer"
    /\ toHub'[e][Len(toHub'[e])].targetPeerId = T

\* C34: connectToPeer(T) takes effect (a record is created, the status is
\* set) only when the relay link is open, no record for T exists and T is not
\* the endpoint's own identifier; otherwise nothing changes. Consequently an
\* offer is sent at most once per record: only by a record that had no local
\* description yet.
C34_ConnectGuards ==
    [][\A e \in ClientIds, T \in ClientIds :
        /\ Dials(e, T)
            => /\ readyState[e] # "NONE" /\ ~wsClosed[e]
               /\ ~MapHas(pcMap[e], T)
               /\ T # cPeerId[e]
        /\ SendsOffer(e, T)
            => LET rid == toHub'[e][Len(toHub'[e])].offer IN
               /\ pcs[rid].owner = e /\ pcs[rid].remote = T
               /\ pcs[rid].localDescription = 0
               /\ pcs'[rid].localDescription # 0
      ]_vars

\* C34 witness: an endpoint that has a record for a remote, and its offer
\* sent, has lost its relay link: every guard of connectToPeer has been in
\* force.
C34_Witness ==
    \E e \in ClientIds, T \in ClientIds :
        /\ MapHas(pcMap[e], T)
        /\ pcs[MapGet(pcMap[e], T)].initiator
        /\ pcs[MapGet(pcMap[e], T)].localDescription # 0
        /\ cPeerId[e] = e
        /\ wsClosed[e]

\* the handler t ends in its catch block in this step
EndsInCatch(t) == t \in tasks /\ tasks' = tasks \ {t} /\ pcs' = pcs

\* C35: after a negotiation with remote identifier T fails (the hub replies
\* that T is not available, or creating or applying a description throws),
\* the record for T is no longer in the registry, so that a later
\* connectToPeer(T) is not turned away as already connected.
C35_FailedNegotiationFreesRecord ==
    [][/\ \A e \in ClientIds :
            (Takes(e, "error") /\ Len(Head(toClient[e]).message) = 3)
            => ~MapHas(pcMap'[e], Head(toClient[e]).message[2])
       /\ \A t \in tasks :
            (EndsInCatch(t) /\ t.step # "flush")
            => ~MapHas(pcMap'[pcs[t.rid].owner], pcs[t.rid].remote)
      ]_vars

\* ------------------------------------------------------------------------
\* Hub-signalled client: the status
\* ------------------------------------------------------------------------

\* a peer registered at endpoint e has its data channel open
HasOpenChannel(e) ==
    \E i \in 1..Len(pcMap[e]) : pcs[pcMap[e][i].conn].dataChannel = "open"

\* C33: in every state the status of an endpoint is connected only if at
\* least one of its registered peers has a data channel in the open state.
C33_ConnectedOnlyWithOpenChannel ==
    \A e \in ClientIds : cStatus[e] = "connected" => HasOpenChannel(e)

\* ------------------------------------------------------------------------
\* Hub-signalled client: answering an offer
\* ------------------------------------------------------------------------

\* the last envelope endpoint e handed to its socket in this step, if any
Sent(e) ==
    IF Len(toHub'[e]) = Len(toHub[e]) + 1
    THEN {toHub'[e][Len(toHub'[e])]}
    ELSE {}

\* C31: on an offer from a source with no existing record the endpoint
\* creates exactly one record for that source, registered under the source's
\* identifier, and sends nothing yet; an answer envelope is sent only by the
\* step that sets the answer as local description of a record whose remote
\* description, the offer, is already applied; it is addressed to the record's
\* source and, the local description being set once, it is the only one.
C31_AnswerAfterDescriptions ==
    [][\A e \in ClientIds :
        /\ (Takes(e, "offer")
                /\ ~MapHas(pcMap[e], Head(toClient[e]).fromPeerId))
            => LET T == Head(toClient[e]).fromPeerId IN
               /\ Len(pcs') = Len(pcs) + 1
               /\ SubSeq(pcs', 1, Len(pcs)) = pcs
               /\ pcs'[Len(pcs')].owner = e
               /\ pcs'[Len(pcs')].remote = T
               /\ ~pcs'[Len(pcs')].initiator
               /\ MapHas(pcMap'[e], T)
               /\ MapGet(pcMap'[e], T) = Len(pcs')
               /\ Len(pcMap'[e]) = Len(pcMap[e]) + 1
               /\ toHub' = toHub
        /\ \A env \in Sent(e) :
            env.type = "answer"
            => LET rid == env.answer IN
               /\ pcs[rid].owner = e
               /\ ~pcs[rid].initiator
               /\ env.targetPeerId = pcs[rid].remote
               /\ pcs[rid].remoteDescription # 0
               /\ pcs[rid].localDescription = 0
               /\ pcs'[rid].localDescription # 0
        /\ \A rid \in 1..Len(pcs) :
            (/\ pcs[rid].owner = e
             /\ ~pcs[rid].initiator
             /\ pcs[rid].localDescription = 0
             /\ pcs'[rid].localDescription # 0)
            => Sent(e) = {[type |-> "answer",
                           targetPeerId |-> pcs[rid].remote,
                           answer |-> rid]}
      ]_vars

\* C31 witness: an endpoint holds a non-initiator record with both
\* descriptions set, and its answer has reached the source of the offer.
C31_Witness ==
    \E rid \in 1..Len(pcs) :
        /\ ~pcs[rid].initiator
        /\ pcs[rid].remoteDescription # 0
        /\ pcs[rid].localDescription # 0
        /\ \E i \in 1..Len(toClient[pcs[rid].remote]) :
              /\ toClient[pcs[rid].remote][i].type = "answer"
              /\ toClient[pcs[rid].remote][i].fromPeerId = pcs[rid].owner

\* no endpoint has made a record for its own identifier
NoSelfDial == \A rid \in 1..Len(pcs) : pcs[rid].owner # pcs[rid].remote

\* C32: after connectToPeer has set the status to connecting, the status
\* eventually becomes connected or error, whether or not the target is
\* registered at the hub; and no recomputation of the aggregate status yields
\* connecting. (Runs in which an endpoint connects to its own identifier are
\* left aside.)
C32_ConnectingIsTransient ==
    /\ \A e \in ClientIds :
        (cStatus[e] = "connecting" /\ NoSelfDial)
            ~> (cStatus[e] \in {"connected", "error"} \/ ~NoSelfDial)
    /\ [][\A e \in ClientIds :
            Recomputes(e) => cStatus'[e] # "connecting"]_vars
====
